---- MODULE Spec2Model ----
(***************************************************************************)
(* The article ingestion pipeline of resin-api: the trigger endpoint GET   *)
(* (api/articles/update.ts) and the stages it awaits in turn (common.ts):  *)
(* parseFeeds, filterExistingItems, processFeeds, insertArticles.          *)
(*                                                                         *)
(* Every await of the code is a point where the environment (feed server,  *)
(* article page server, language model, database) answers or fails, so     *)
(* each answer and each failure is an action of its own.  The concurrent   *)
(* promises of parseFeeds and processFeeds complete in any order.          *)
(***************************************************************************)
EXTENDS Integers, Sequences, FiniteSets, TLC

\* ------------------------------------------------------------------ bounds
\* A run starts only while fewer rows than this are stored.
MaxStored == 2

\* ------------------------------------------------------- program constants
\* CONFIG.rssItemLimit, scaled down from 50 so that feeds longer than the
\* limit stay enumerable.
rssItemLimit == 1
\* CONFIG.sources has two entries.
NumSources == 2
\* Longest feed a server answers with: long enough for the limit to cut it.
MaxFeedLen == rssItemLimit + 1

\* ------------------------------------------------------- JavaScript values
Undefined == "<undefined>"
Null == "<null>"

\* JavaScript truthiness of a string-or-missing value.
Truthy(v) == v \notin {Undefined, Null, ""}
\* a || b
OrElse(a, b) == IF Truthy(a) THEN a ELSE b
\* a ?? b
Coalesce(a, b) == IF a \in {Undefined, Null} THEN b ELSE a
\* row[col] of a plain object: a missing property reads as undefined.
Get(row, col) == IF col \in DOMAIN row THEN row[col] ELSE Undefined
\* A query parameter as the driver binds it: undefined is sent as NULL.
ToSql(v) == IF v = Undefined THEN Null ELSE v
\* SQL equality: NULL equals nothing.
SqlEq(a, b) == a # Null /\ b # Null /\ a = b
\* Array.prototype.includes
Includes(seq, v) == \E i \in 1..Len(seq) : seq[i] = v

Min(a, b) == IF a < b THEN a ELSE b
\* Array.prototype.slice(0, n)
Slice0(seq, n) == SubSeq(seq, 1, Min(Len(seq), n))
\* Array.prototype.map
Map(seq, F(_)) == [i \in 1..Len(seq) |-> F(seq[i])]
\* Array.prototype.flat on an array of arrays
RECURSIVE Flat(_)
Flat(seqs) == IF seqs = <<>> THEN <<>> ELSE Head(seqs) \o Flat(Tail(seqs))

SeqsUpTo(S, n) == UNION {[1..k -> S] : k \in 0..n}

\* ------------------------------------------------------------- environment
Links == {Undefined, "u1", "u2"}

\* Feed entries as rss-parser yields them (Parser.Item).
Item(l, e, s, c) ==
    [link |-> l, encoded |-> e, summary |-> s, contentSnippet |-> c,
     title |-> "T", creator |-> "A", isoDate |-> "d1"]

\* Entries a feed server answers with in a pipeline run.
FeedItems == {Item(l, e, Undefined, Undefined) : l \in Links, e \in {Undefined, "enc"}}
\* Entries processFeeds may be called with.
AllItems ==
    {Item(l, e, s, c) : l \in Links, e \in {Undefined, "enc"},
                        s \in {Undefined, "sum"}, c \in {Undefined, "snip"}}

\* CONFIG.sources, with the isDisabled flags given.
ConfigSources(flags) ==
    [i \in 1..NumSources |->
        [id |-> IF i = 1 THEN "fox" ELSE "nyt",
         name |-> IF i = 1 THEN "Fox News" ELSE "New York Times",
         isDisabled |-> flags[i]]]

\* What fetch + Readability give for a page: the HTTP status is never read,
\* parse() may be null.
ScrapeResponses ==
    {[status |-> 200, textContent |-> Null],
     [status |-> 200, textContent |-> "page"],
     [status |-> 404, textContent |-> "errpage"]}

\* completion.choices[0].message.parsed: null, or the three strings.
NullParsed == [isNull |-> TRUE, headline |-> Undefined, source |-> Undefined, summary |-> Undefined]
AnalysisResults ==
    {NullParsed} \cup
    {[isNull |-> FALSE, headline |-> h, source |-> s, summary |-> m] :
        h \in {"", "H"}, s \in {"", "S"}, m \in {"", "Sum"}}
\* analysis?.field
Opt(analysis, field) == IF analysis.isNull THEN Undefined ELSE analysis[field]

EnvFlags == {Undefined, "true", "1"}

\* ------------------------------------------------------------------- state
VARIABLES
    sources,      \* CONFIG.sources
    envFlag,      \* process.env.ENABLE_ARTICLE_UPDATE
    store,        \* rows of the articles table
    pc,           \* where the GET handler is suspended
    response,     \* status of the last response, 0 before any
    feedRequests, \* parseFeeds: one promise per source
    fetched,      \* sources whose feed URL was requested in this run
    lastFeed,     \* parseFeeds: the feed the latest completed request got
    parsedFeeds,  \* GET: result of parseFeeds
    newFeeds,     \* GET: result of filterExistingItems
    tasks,        \* processFeeds: one promise per candidate
    articles,     \* GET: result of processFeeds
    writes        \* INSERT statements issued in this run

vars == <<sources, envFlag, store, pc, response, feedRequests, fetched, lastFeed,
          parsedFeeds, newFeeds, tasks, articles, writes>>

NoFeed == [src |-> 0, items |-> <<>>]
NoArticle ==
    [url |-> Undefined, title |-> Undefined, publication |-> Undefined,
     authors |-> Undefined, content |-> Undefined, source |-> Undefined,
     headline |-> Undefined, summary |-> Undefined]

\* ------------------------------------------------------------ parseFeeds
\* Mutant: the isDisabled check is missing.
FeedRequestStartAll(source) == [state |-> "pending", value |-> <<>>]

\* The callback of CONFIG.sources.map up to its first await.
FeedRequestStart(source) ==
    IF source.isDisabled
        THEN [state |-> "fulfilled", value |-> <<>>]
        ELSE [state |-> "pending", value |-> <<>>]

\* Mutant: the slice is missing.
FeedRequestValueNoLimit(source, items) ==
    Map(items, LAMBDA it : [source |-> source, item |-> it])

\* feed.items.slice(0, CONFIG.rssItemLimit).map(item => ({source, item}))
FeedRequestValue(source, items) ==
    Map(Slice0(items, rssItemLimit), LAMBDA it : [source |-> source, item |-> it])

\* Mutant: the results are collected in the order the requests complete.
ParseFeedsValueCompletionOrder(reqs) ==
    IF lastFeed.src = 0
        THEN Flat([i \in 1..Len(reqs) |-> reqs[i].value])
        ELSE Flat([i \in 1..Len(reqs) |->
                    IF i = Len(reqs) THEN reqs[lastFeed.src].value
                    ELSE IF i >= lastFeed.src THEN reqs[i + 1].value
                    ELSE reqs[i].value])

\* (await Promise.all(feedRequests)).flat()
ParseFeedsValue(reqs) == Flat([i \in 1..Len(reqs) |-> reqs[i].value])

\* --------------------------------------------------- filterExistingItems
\* SELECT * FROM articles WHERE url = ANY(urls)
SelectByUrls(rows, urls) ==
    SelectSeq(rows, LAMBDA row : \E i \in 1..Len(urls) : SqlEq(row.url, ToSql(urls[i])))

\* Mutant: the negation of the filter predicate is missing.
FilterExistingInverted(items, rows) ==
    LET urls == Map(items, LAMBDA r : r.item.link)
        found == SelectByUrls(rows, urls)
        existingUrls == Map(found, LAMBDA row : row.url)
    IN  SelectSeq(items, LAMBDA r : Includes(existingUrls, r.item.link))

\* items.filter(({item}) => !existingUrls.includes(item.link)) on the SELECT's rows
FilterExisting(items, rows) ==
    LET urls == Map(items, LAMBDA r : r.item.link)
        found == SelectByUrls(rows, urls)
        existingUrls == Map(found, LAMBDA row : row.url)
    IN  SelectSeq(items, LAMBDA r : ~Includes(existingUrls, r.item.link))

\* ----------------------------------------------------------- processFeeds
\* Mutant: the !item.content check is missing.
NeedsScrapeAnyLink(item) == Truthy(item.link)

\* item.link && !item.content, with item.content = item["content:encoded"]
NeedsScrape(item) == Truthy(item.link) /\ ~Truthy(item.encoded)

\* The callback of feeds.map up to its first await.
TaskStart(r) ==
    [source |-> r.source, item |-> r.item, content |-> r.item.encoded,
     stage |-> IF NeedsScrape(r.item) THEN "scrape" ELSE "analyze",
     scrapes |-> IF NeedsScrape(r.item) THEN 1 ELSE 0,
     status |-> 0, error |-> "", article |-> NoArticle]

\* scrapeContent's return value
ScrapeValue(resp) == Coalesce(resp.textContent, "")

\* Mutant: the fallbacks of content are swapped.
AssembleSnippetFirst(t, analysis) ==
    [url |-> t.item.link, title |-> t.item.title, publication |-> t.source.name,
     authors |-> t.item.creator,
     content |-> OrElse(OrElse(t.content, t.item.contentSnippet), t.item.summary),
     source |-> Opt(analysis, "source"),
     headline |-> Opt(analysis, "headline"),
     summary |-> Opt(analysis, "summary")]

\* Mutant: the feed entry's date is copied into the object.
AssembleWithDate(t, analysis) ==
    [url |-> t.item.link, title |-> t.item.title, publication |-> t.source.name,
     authors |-> t.item.creator, date_published |-> t.item.isoDate,
     content |-> OrElse(OrElse(t.content, t.item.summary), t.item.contentSnippet),
     source |-> Opt(analysis, "source"),
     headline |-> Opt(analysis, "headline"),
     summary |-> Opt(analysis, "summary")]

\* The object the callback returns.
Assemble(t, analysis) ==
    [url |-> t.item.link, title |-> t.item.title, publication |-> t.source.name,
     authors |-> t.item.creator,
     content |-> OrElse(OrElse(t.content, t.item.summary), t.item.contentSnippet),
     source |-> Opt(analysis, "source"),
     headline |-> Opt(analysis, "headline"),
     summary |-> Opt(analysis, "summary")]

\* Mutant: the source check is missing.
CompleteNoSource(a) == Truthy(a.content) /\ Truthy(a.headline) /\ Truthy(a.summary)

\* The predicate of articles.filter
Complete(a) ==
    Truthy(a.content) /\ Truthy(a.headline) /\ Truthy(a.summary) /\ Truthy(a.source)

ProcessFeedsValue(ts) == SelectSeq(Map(ts, LAMBDA t : t.article), Complete)

\* --------------------------------------------------------- insertArticles
columns ==
    <<"url", "title", "publication", "authors", "date_published",
      "content", "source", "headline", "summary">>

\* The values one element of rows contributes, by column, as the driver binds them.
InsertedRow(row) == [col \in {columns[i] : i \in 1..Len(columns)} |-> ToSql(Get(row, col))]

\* rows.flatMap(row => columns.map(col => row[col]))
InsertValues(rows) ==
    [k \in 1..(Len(rows) * Len(columns)) |->
        InsertedRow(rows[((k - 1) \div Len(columns)) + 1])[columns[((k - 1) % Len(columns)) + 1]]]

\* Mutant: the placeholders of a row start one position early.
PlaceholderOffByOne(rowIndex, i) == rowIndex * (Len(columns) - 1) + 1 + i

\* The number n of the placeholder $n of column i of row rowIndex (both from 0):
\* start = rowIndex * columns.length + 1, then start + i.
Placeholder(rowIndex, i) == rowIndex * Len(columns) + 1 + i

\* The rows INSERT INTO articles (columns) VALUES placeholders stores for values.
StoredRows(rows) ==
    LET values == InsertValues(rows)
    IN  [r \in 1..Len(rows) |->
            [col \in {columns[i] : i \in 1..Len(columns)} |->
                LET i == CHOOSE j \in 1..Len(columns) : columns[j] = col
                IN  values[Placeholder(r - 1, i - 1)]]]

\* -------------------------------------------------------------------- Init
Init ==
    /\ \E flags \in [1..NumSources -> BOOLEAN] : sources = ConfigSources(flags)
    /\ envFlag \in EnvFlags
    /\ store = <<>>
    /\ pc = "idle"
    /\ response = 0
    /\ feedRequests = <<>>
    /\ fetched = {}
    /\ lastFeed = NoFeed
    /\ parsedFeeds = <<>>
    /\ newFeeds = <<>>
    /\ tasks = <<>>
    /\ articles = <<>>
    /\ writes = 0

\* --------------------------------------------------------------------- GET
Idle == pc \in {"idle", "done"} /\ Len(store) < MaxStored

\* The handler ends: a response, or an exception the framework turns into 500.
Finish(status) == pc' = "done" /\ response' = status

\* update.ts 9-14
GetDisabled ==
    /\ Idle
    /\ envFlag # "true"
    /\ Finish(400)
    /\ feedRequests' = <<>> /\ fetched' = {} /\ lastFeed' = NoFeed
    /\ parsedFeeds' = <<>> /\ newFeeds' = <<>> /\ tasks' = <<>>
    /\ articles' = <<>> /\ writes' = 0
    /\ UNCHANGED <<sources, envFlag, store>>

\* Mutant: the enablement check is missing.
GetStartUngated ==
    /\ Idle
    /\ pc' = "parse"
    /\ response' = 0
    /\ feedRequests' = Map(sources, FeedRequestStart)
    /\ fetched' = {i \in 1..Len(sources) : FeedRequestStart(sources[i]).state = "pending"}
    /\ lastFeed' = NoFeed
    /\ parsedFeeds' = <<>> /\ newFeeds' = <<>> /\ tasks' = <<>>
    /\ articles' = <<>> /\ writes' = 0
    /\ UNCHANGED <<sources, envFlag, store>>

\* update.ts 16 up to the await: parseFeeds maps over the sources.
GetStart ==
    /\ Idle
    /\ envFlag = "true"
    /\ pc' = "parse"
    /\ response' = 0
    /\ feedRequests' = Map(sources, FeedRequestStart)
    /\ fetched' = {i \in 1..Len(sources) : FeedRequestStart(sources[i]).state = "pending"}
    /\ lastFeed' = NoFeed
    /\ parsedFeeds' = <<>> /\ newFeeds' = <<>> /\ tasks' = <<>>
    /\ articles' = <<>> /\ writes' = 0
    /\ UNCHANGED <<sources, envFlag, store>>

\* rssParser.parseURL answers for source s.
FeedFetchOk(s) ==
    /\ pc = "parse"
    /\ feedRequests[s].state = "pending"
    /\ \E items \in SeqsUpTo(FeedItems, MaxFeedLen) :
        /\ feedRequests' = [feedRequests EXCEPT
                ![s] = [state |-> "fulfilled", value |-> FeedRequestValue(sources[s], items)]]
        /\ lastFeed' = [src |-> s, items |-> items]
    /\ UNCHANGED <<sources, envFlag, store, pc, response, fetched, parsedFeeds,
                   newFeeds, tasks, articles, writes>>

\* rssParser.parseURL throws for source s.
FeedFetchFail(s) ==
    /\ pc = "parse"
    /\ feedRequests[s].state = "pending"
    /\ feedRequests' = [feedRequests EXCEPT ![s].state = "rejected"]
    /\ UNCHANGED <<sources, envFlag, store, pc, response, fetched, lastFeed, parsedFeeds,
                   newFeeds, tasks, articles, writes>>

\* Promise.all fulfils; GET goes on to filterExistingItems and its SELECT.
ParseFeedsReturn ==
    /\ pc = "parse"
    /\ \A s \in 1..Len(feedRequests) : feedRequests[s].state = "fulfilled"
    /\ parsedFeeds' = ParseFeedsValue(feedRequests)
    /\ pc' = "filter"
    /\ UNCHANGED <<sources, envFlag, store, response, feedRequests, fetched, lastFeed,
                   newFeeds, tasks, articles, writes>>

\* Promise.all rejects with the first rejection; nothing in GET catches it.
ParseFeedsThrow ==
    /\ pc = "parse"
    /\ \E s \in 1..Len(feedRequests) : feedRequests[s].state = "rejected"
    /\ Finish(500)
    /\ lastFeed' = NoFeed
    /\ UNCHANGED <<sources, envFlag, store, feedRequests, fetched, parsedFeeds,
                   newFeeds, tasks, articles, writes>>

\* The SELECT answers; filterExistingItems returns.
FilterReturn ==
    /\ pc = "filter"
    /\ newFeeds' = FilterExisting(parsedFeeds, store)
    /\ lastFeed' = NoFeed
    /\ pc' = "process"
    /\ UNCHANGED <<sources, envFlag, store, response, feedRequests, fetched,
                   parsedFeeds, tasks, articles, writes>>

\* The SELECT fails.
FilterThrow ==
    /\ pc = "filter"
    /\ Finish(500)
    /\ lastFeed' = NoFeed
    /\ UNCHANGED <<sources, envFlag, store, feedRequests, fetched, parsedFeeds,
                   newFeeds, tasks, articles, writes>>

\* processFeeds is called: every callback runs up to its first await.
ProcessFeedsCall ==
    /\ pc = "process"
    /\ tasks' = Map(newFeeds, TaskStart)
    /\ pc' = "tasks"
    /\ UNCHANGED <<sources, envFlag, store, response, feedRequests, fetched, lastFeed,
                   parsedFeeds, newFeeds, articles, writes>>

\* scrapeContent returns for candidate i; analyzeContent is called.
ScrapeReturn(i) ==
    /\ pc = "tasks"
    /\ tasks[i].stage = "scrape"
    /\ \E resp \in ScrapeResponses :
        tasks' = [tasks EXCEPT ![i].content = ScrapeValue(resp),
                               ![i].status = resp.status,
                               ![i].stage = "analyze"]
    /\ UNCHANGED <<sources, envFlag, store, pc, response, feedRequests, fetched, lastFeed,
                   parsedFeeds, newFeeds, articles, writes>>

\* scrapeContent throws for candidate i (network error, unparsable page).
ScrapeThrow(i) ==
    /\ pc = "tasks"
    /\ tasks[i].stage = "scrape"
    /\ tasks' = [tasks EXCEPT ![i].stage = "rejected", ![i].error = "scrape"]
    /\ UNCHANGED <<sources, envFlag, store, pc, response, feedRequests, fetched, lastFeed,
                   parsedFeeds, newFeeds, articles, writes>>

\* analyzeContent returns for candidate i; the callback returns its object.
AnalyzeReturn(i) ==
    /\ pc = "tasks"
    /\ tasks[i].stage = "analyze"
    /\ \E analysis \in AnalysisResults :
        tasks' = [tasks EXCEPT ![i].article = Assemble(tasks[i], analysis),
                               ![i].stage = "done"]
    /\ UNCHANGED <<sources, envFlag, store, pc, response, feedRequests, fetched, lastFeed,
                   parsedFeeds, newFeeds, articles, writes>>

\* analyzeContent throws for candidate i.
AnalyzeThrow(i) ==
    /\ pc = "tasks"
    /\ tasks[i].stage = "analyze"
    /\ tasks' = [tasks EXCEPT ![i].stage = "rejected", ![i].error = "analysis"]
    /\ UNCHANGED <<sources, envFlag, store, pc, response, feedRequests, fetched, lastFeed,
                   parsedFeeds, newFeeds, articles, writes>>

\* Mutant: processFeeds returns as soon as one callback has returned.
ProcessFeedsReturnEarly ==
    /\ pc = "tasks"
    /\ \E i \in 1..Len(tasks) : tasks[i].stage = "done"
    /\ articles' = ProcessFeedsValue(tasks)
    /\ pc' = "insert"
    /\ UNCHANGED <<sources, envFlag, store, response, feedRequests, fetched, lastFeed,
                   parsedFeeds, newFeeds, tasks, writes>>

\* Promise.all fulfils; processFeeds filters and returns.
ProcessFeedsReturn ==
    /\ pc = "tasks"
    /\ \A i \in 1..Len(tasks) : tasks[i].stage = "done"
    /\ articles' = ProcessFeedsValue(tasks)
    /\ pc' = "insert"
    /\ UNCHANGED <<sources, envFlag, store, response, feedRequests, fetched, lastFeed,
                   parsedFeeds, newFeeds, tasks, writes>>

\* Promise.all rejects; nothing in processFeeds or GET catches it.
ProcessFeedsThrow ==
    /\ pc = "tasks"
    /\ \E i \in 1..Len(tasks) : tasks[i].stage = "rejected"
    /\ Finish(500)
    /\ UNCHANGED <<sources, envFlag, store, feedRequests, fetched, lastFeed, parsedFeeds,
                   newFeeds, tasks, articles, writes>>

\* Mutant: the rows.length === 0 return is missing.
InsertArticlesCallAlways ==
    /\ pc = "insert"
    /\ pc' = "write" /\ writes' = writes + 1 /\ UNCHANGED response
    /\ UNCHANGED <<sources, envFlag, store, feedRequests, fetched, lastFeed, parsedFeeds,
                   newFeeds, tasks, articles>>

\* Mutant: GET does not await insertArticles and responds at once.
InsertArticlesCallNoAwait ==
    /\ pc = "insert"
    /\ Finish(200)
    /\ writes' = IF Len(articles) = 0 THEN writes ELSE writes + 1
    /\ UNCHANGED <<sources, envFlag, store, feedRequests, fetched, lastFeed, parsedFeeds,
                   newFeeds, tasks, articles>>

\* insertArticles up to its await: nothing to do for no rows, else the INSERT.
InsertArticlesCall ==
    /\ pc = "insert"
    /\ IF Len(articles) = 0
        THEN Finish(200) /\ UNCHANGED writes
        ELSE pc' = "write" /\ writes' = writes + 1 /\ UNCHANGED response
    /\ UNCHANGED <<sources, envFlag, store, feedRequests, fetched, lastFeed, parsedFeeds,
                   newFeeds, tasks, articles>>

\* Mutant: the rows are inserted one statement each and the second one fails.
InsertOkFirstRowOnly ==
    /\ pc = "write"
    /\ store' = store \o SubSeq(StoredRows(articles), 1, 1)
    /\ IF Len(articles) > 1 THEN Finish(500) ELSE Finish(200)
    /\ UNCHANGED <<sources, envFlag, feedRequests, fetched, lastFeed, parsedFeeds,
                   newFeeds, tasks, articles, writes>>

\* The INSERT succeeds: every row is stored; GET responds.
InsertOk ==
    /\ pc = "write"
    /\ store' = store \o StoredRows(articles)
    /\ Finish(200)
    /\ UNCHANGED <<sources, envFlag, feedRequests, fetched, lastFeed, parsedFeeds,
                   newFeeds, tasks, articles, writes>>

\* The INSERT fails: no row is stored.
InsertThrow ==
    /\ pc = "write"
    /\ Finish(500)
    /\ UNCHANGED <<sources, envFlag, store, feedRequests, fetched, lastFeed, parsedFeeds,
                   newFeeds, tasks, articles, writes>>

ProcessNext ==
    \/ ProcessFeedsCall
    \/ \E i \in 1..Len(tasks) : ScrapeReturn(i)
    \/ \E i \in 1..Len(tasks) : ScrapeThrow(i)
    \/ \E i \in 1..Len(tasks) : AnalyzeReturn(i)
    \/ \E i \in 1..Len(tasks) : AnalyzeThrow(i)
    \/ ProcessFeedsReturn
    \/ ProcessFeedsThrow

Next ==
    \/ GetDisabled
    \/ GetStart
    \/ \E s \in 1..NumSources : FeedFetchOk(s)
    \/ \E s \in 1..NumSources : FeedFetchFail(s)
    \/ ParseFeedsReturn
    \/ ParseFeedsThrow
    \/ FilterReturn
    \/ FilterThrow
    \/ ProcessNext
    \/ InsertArticlesCall
    \/ InsertOk
    \/ InsertThrow

Spec == Init /\ [][Next]_vars

\* processFeeds on its own, called with any list of candidates.
MaxCandidates == NumSources * rssItemLimit

InitProcess ==
    /\ sources = ConfigSources([i \in 1..NumSources |-> FALSE])
    /\ envFlag = "true"
    /\ store = <<>>
    /\ pc = "process"
    /\ response = 0
    /\ feedRequests = <<>>
    /\ fetched = {}
    /\ lastFeed = NoFeed
    /\ parsedFeeds = <<>>
    /\ \E its \in SeqsUpTo(AllItems, MaxCandidates) :
        newFeeds = [i \in 1..Len(its) |-> [source |-> sources[i], item |-> its[i]]]
    /\ tasks = <<>>
    /\ articles = <<>>
    /\ writes = 0

SpecProcess == InitProcess /\ [][ProcessNext]_vars

\* ================================================================== claims
NonEmptyString(v) == v \notin {Undefined, Null} /\ v # ""

\* processFeeds rejected: the run ended with an error while a candidate's
\* promise was rejected.
ProcessFeedsFailed ==
    pc = "done" /\ response = 500 /\ \E i \in 1..Len(tasks) : tasks[i].stage = "rejected"

\* C1: every article processFeeds returns (the rows handed to insertArticles)
\* has non-empty content, headline, summary and source.
C1_ArticlesComplete ==
    \A k \in 1..Len(articles) :
        /\ NonEmptyString(articles[k].content)
        /\ NonEmptyString(articles[k].headline)
        /\ NonEmptyString(articles[k].summary)
        /\ NonEmptyString(articles[k].source)

\* processFeeds returned one of two candidates; the other had content,
\* headline and summary but an empty source.
C1_Witness ==
    /\ pc = "insert" /\ Len(tasks) = 2 /\ Len(articles) = 1
    /\ \E i \in 1..Len(tasks) :
        /\ NonEmptyString(tasks[i].article.content)
        /\ tasks[i].article.headline = "H"
        /\ tasks[i].article.summary = "Sum"
        /\ tasks[i].article.source = ""

\* C2: no two stored articles share a URL.
C2_UrlsUnique ==
    \A i, j \in 1..Len(store) :
        i # j /\ store[i].url # Null => store[i].url # store[j].url

\* C3: filterExistingItems returns, in input order, exactly the candidates
\* whose link is the url of no stored article.
C3_FilterExact ==
    pc = "process" =>
        newFeeds = SelectSeq(parsedFeeds,
                             LAMBDA r : \A k \in 1..Len(store) : store[k].url # r.item.link)

\* The filter removed a stored candidate and kept an unstored one.
C3_Witness ==
    /\ pc = "process"
    /\ Len(parsedFeeds) = 2 /\ Len(newFeeds) = 1
    /\ \E k \in 1..Len(store) : store[k].url \in {r.item.link : r \in {parsedFeeds[i] : i \in 1..2}}

\* C4: a failed feed request does not abort the run: parseFeeds returns the
\* items of the other sources, the failed one counting as empty.
C4_FeedFailureTolerated ==
    [][(pc = "parse" /\ \E s \in 1..Len(feedRequests) : feedRequests[s].state = "rejected")
        => \/ pc' = "parse"
           \/ pc' = "filter" /\ parsedFeeds' = ParseFeedsValue(feedRequests)]_vars

\* C5: a failed scrape does not make processFeeds fail.
C5_ScrapeFailureTolerated ==
    (/\ \E i \in 1..Len(tasks) : tasks[i].error = "scrape"
     /\ \A i \in 1..Len(tasks) : tasks[i].error # "analysis")
        => ~ProcessFeedsFailed

\* C6: a failed analysis does not make processFeeds fail.
C6_AnalysisFailureTolerated ==
    (/\ \E i \in 1..Len(tasks) : tasks[i].error = "analysis"
     /\ \A i \in 1..Len(tasks) : tasks[i].error # "scrape")
        => ~ProcessFeedsFailed

\* C7: a feed request yields the first min(n, rssItemLimit) entries of its
\* feed in feed order, and parseFeeds returns just these for the source.
C7_PerSourceLimit ==
    /\ lastFeed.src # 0 =>
        LET value == feedRequests[lastFeed.src].value
        IN  /\ Len(value) = Min(Len(lastFeed.items), rssItemLimit)
            /\ \A k \in 1..Len(value) :
                /\ value[k].item = lastFeed.items[k]
                /\ value[k].source = sources[lastFeed.src]
    /\ pc = "filter" =>
        \A s \in 1..Len(sources) :
            LET ofSource == SelectSeq(parsedFeeds, LAMBDA r : r.source.id = sources[s].id)
            IN  /\ ofSource = feedRequests[s].value
                /\ Len(ofSource) <= rssItemLimit

\* A feed longer than the limit was fetched.
C7_Witness ==
    /\ lastFeed.src # 0
    /\ Len(lastFeed.items) > rssItemLimit
    /\ Len(feedRequests[lastFeed.src].value) = rssItemLimit

\* C8: a disabled source is never fetched and contributes no item.
C8_DisabledSilent ==
    \A s \in 1..Len(sources) :
        sources[s].isDisabled =>
            /\ s \notin fetched
            /\ lastFeed.src # s
            /\ feedRequests # <<>> => feedRequests[s].value = <<>>
            /\ \A k \in 1..Len(parsedFeeds) : parsedFeeds[k].source.id # sources[s].id

\* parseFeeds returned items while one source was disabled.
C8_Witness ==
    /\ pc = "filter" /\ Len(parsedFeeds) >= 1
    /\ \E s \in 1..Len(sources) : sources[s].isDisabled

\* C9: a candidate with encoded content is never scraped; the content
\* analyzed and returned is the encoded content.
C9_EncodedNeverScraped ==
    \A i \in 1..Len(tasks) :
        NonEmptyString(tasks[i].item.encoded) =>
            /\ tasks[i].scrapes = 0
            /\ tasks[i].stage # "scrape"
            /\ tasks[i].content = tasks[i].item.encoded
            /\ tasks[i].stage = "done" => tasks[i].article.content = tasks[i].item.encoded

\* A candidate with a link and encoded content was returned with it.
C9_Witness ==
    /\ pc = "insert"
    /\ \E i \in 1..Len(tasks) :
        /\ tasks[i].item.link = "u1"
        /\ tasks[i].item.encoded = "enc"
        /\ \E k \in 1..Len(articles) : articles[k] = tasks[i].article

\* C10: the assembled content is the first non-empty of (encoded or scraped
\* content, summary, snippet); a candidate with only a summary is kept with
\* it when the analysis is complete.
C10_ContentFallback ==
    /\ \A i \in 1..Len(tasks) :
        tasks[i].stage = "done" =>
            LET t == tasks[i]
                c == t.article.content
            IN  IF NonEmptyString(t.content) THEN c = t.content
                ELSE IF NonEmptyString(t.item.summary) THEN c = t.item.summary
                ELSE IF NonEmptyString(t.item.contentSnippet) THEN c = t.item.contentSnippet
                ELSE ~NonEmptyString(c)
    /\ pc = "insert" =>
        \A i \in 1..Len(tasks) :
            LET t == tasks[i]
            IN  (/\ ~NonEmptyString(t.item.link)
                 /\ ~NonEmptyString(t.item.encoded)
                 /\ NonEmptyString(t.item.summary)
                 /\ NonEmptyString(t.article.headline)
                 /\ NonEmptyString(t.article.summary)
                 /\ NonEmptyString(t.article.source))
                    => /\ t.article.content = t.item.summary
                       /\ \E k \in 1..Len(articles) : articles[k] = t.article

\* A candidate with no link, no encoded content, a summary and a snippet was
\* returned with the summary as content.
C10_Witness ==
    /\ pc = "insert"
    /\ \E k \in 1..Len(articles) :
        /\ articles[k].url = Undefined
        /\ articles[k].content = "sum"
    /\ \E i \in 1..Len(tasks) :
        /\ tasks[i].item.link = Undefined /\ tasks[i].item.encoded = Undefined
        /\ tasks[i].item.summary = "sum" /\ tasks[i].item.contentSnippet = "snip"

\* The rows a step appended to the articles table.
Appended == SubSeq(store', Len(store) + 1, Len(store'))
AppendOnly == Len(store') >= Len(store) /\ SubSeq(store', 1, Len(store)) = store

\* The url column of a candidate's row: NULL when the entry has no link.
UrlColumn(link) == IF link = Undefined THEN Null ELSE link

\* A candidate that resolved to content and got all three analysis fields.
Eligible(t) ==
    /\ t.stage = "done"
    /\ NonEmptyString(t.article.content)
    /\ NonEmptyString(t.article.headline)
    /\ NonEmptyString(t.article.source)
    /\ NonEmptyString(t.article.summary)

\* C11: a run without failure inserts every unstored, resolved and fully
\* analyzed candidate exactly once, with its analysis fields and resolved
\* content, and inserts nothing else (nothing of a disabled source, nothing
\* for an empty analysis).
C11_EndToEnd ==
    [][(pc \in {"insert", "write"} /\ pc' = "done" /\ response' = 200) =>
        LET good == SelectSeq(tasks, Eligible)
            unstored == SelectSeq(parsedFeeds,
                            LAMBDA r : \A k \in 1..Len(store) : store[k].url # r.item.link)
        IN  /\ AppendOnly
            /\ Len(tasks) = Len(unstored)
            /\ \A i \in 1..Len(tasks) :
                tasks[i].item = unstored[i].item /\ tasks[i].source = unstored[i].source
            /\ Len(Appended) = Len(good)
            /\ \A k \in 1..Len(good) :
                /\ Appended[k].url = UrlColumn(good[k].item.link)
                /\ Appended[k].title = good[k].item.title
                /\ Appended[k].publication = good[k].source.name
                /\ Appended[k].authors = good[k].item.creator
                /\ Appended[k].headline = good[k].article.headline
                /\ Appended[k].source = good[k].article.source
                /\ Appended[k].summary = good[k].article.summary
                /\ Appended[k].content = good[k].article.content
                /\ NonEmptyString(good[k].content) => Appended[k].content = good[k].content
                /\ \A s \in 1..Len(sources) :
                    sources[s].isDisabled => Appended[k].publication # sources[s].name
       ]_vars

\* One source disabled, one new entry resolved by scraping, analysis H/S/Sum:
\* exactly one row is stored.
C11_Witness ==
    /\ pc = "done" /\ response = 200 /\ writes = 1
    /\ sources[2].isDisabled
    /\ Len(store) = 1
    /\ store[1].content = "page" /\ store[1].headline = "H"
    /\ store[1].source = "S" /\ store[1].summary = "Sum"

\* C12: insertArticles with no rows issues no write and returns; the run
\* responds and the table is unchanged.
C12_EmptyInsertNoop ==
    [][(pc = "insert" /\ Len(articles) = 0) =>
        /\ store' = store
        /\ writes = 0 /\ writes' = 0
        /\ pc' = "done" /\ response' = 200]_vars

\* A run whose only candidate was dropped ended without a write.
C12_Witness ==
    /\ pc = "done" /\ response = 200 /\ writes = 0
    /\ Len(tasks) >= 1 /\ articles = <<>> /\ store = <<>>

\* C13: with the flag not exactly "true" the endpoint answers 400 and no
\* stage runs: no feed request, no lookup, no scrape, no analysis, no write.
C13_DisabledGate ==
    envFlag # "true" =>
        /\ pc \in {"idle", "done"}
        /\ response \in {0, 400}
        /\ fetched = {} /\ feedRequests = <<>> /\ lastFeed = NoFeed
        /\ parsedFeeds = <<>> /\ newFeeds = <<>> /\ tasks = <<>> /\ articles = <<>>
        /\ writes = 0 /\ store = <<>>

\* The endpoint answered 400 with the flag set to "1".
C13_Witness == envFlag = "1" /\ pc = "done" /\ response = 400

\* C14: 200 is returned only once the insert step has completed (all rows
\* stored, or nothing to store), and it is returned when nothing was left
\* to insert.
C14_SuccessAfterInsert ==
    [][/\ response' = 200 =>
            /\ pc' = "done"
            /\ envFlag = "true"
            /\ \A i \in 1..Len(tasks) : tasks[i].stage = "done"
            /\ IF Len(articles) = 0
                THEN pc = "insert" /\ writes' = 0 /\ store' = store
                ELSE /\ pc = "write" /\ writes' = 1
                     /\ AppendOnly /\ Len(Appended) = Len(articles)
       /\ (pc = "insert" /\ Len(articles) = 0) => response' = 200
       /\ (pc = "write" /\ store' # store) => response' = 200
      ]_vars

\* 200 was returned after a write that stored the run's rows.
C14_Witness ==
    /\ pc = "done" /\ response = 200 /\ writes = 1
    /\ Len(articles) >= 1 /\ Len(store) >= Len(articles)

\* The position in CONFIG.sources of the source of a candidate.
SourceIndex(r) == CHOOSE s \in 1..Len(sources) : sources[s].id = r.source.id

\* C15: parseFeeds returns the per-source lists concatenated in the order of
\* CONFIG.sources, whichever request completed last.
C15_RegistryOrder ==
    pc = "filter" =>
        /\ \A i, j \in 1..Len(parsedFeeds) :
            i < j => SourceIndex(parsedFeeds[i]) <= SourceIndex(parsedFeeds[j])
        /\ \A s \in 1..Len(sources) :
            SelectSeq(parsedFeeds, LAMBDA r : SourceIndex(r) = s) = feedRequests[s].value

\* Both sources gave an item and the first source's request completed last.
C15_Witness ==
    /\ pc = "filter" /\ lastFeed.src = 1
    /\ Len(parsedFeeds) = 2
    /\ parsedFeeds[1].source.id = "fox" /\ parsedFeeds[2].source.id = "nyt"

\* C16: for a non-empty list insertArticles issues exactly one write, and
\* the table then holds all rows of the list or none of them.
C16_SingleAtomicWrite ==
    [][/\ (pc = "insert" /\ Len(articles) > 0) =>
            pc' = "write" /\ writes = 0 /\ writes' = 1 /\ store' = store
       /\ pc = "write" =>
            /\ writes = 1 /\ writes' = 1
            /\ \/ store' = store
               \/ /\ AppendOnly /\ Len(Appended) = Len(articles)
                  /\ \A k \in 1..Len(articles) :
                        /\ Appended[k].url = UrlColumn(articles[k].url)
                        /\ Appended[k].title = articles[k].title
                        /\ Appended[k].publication = articles[k].publication
                        /\ Appended[k].authors = articles[k].authors
                        /\ Appended[k].content = articles[k].content
                        /\ Appended[k].source = articles[k].source
                        /\ Appended[k].headline = articles[k].headline
                        /\ Appended[k].summary = articles[k].summary
      ]_vars

\* A batch of two rows was written and both are stored.
C16_Witness ==
    /\ pc = "done" /\ response = 200 /\ writes = 1
    /\ Len(articles) = 2 /\ Len(store) = 2

\* C17: a page answered with a status other than 200 resolves to the empty
\* string.
C17_Non200Empty ==
    \A i \in 1..Len(tasks) :
        tasks[i].status \notin {0, 200} => tasks[i].content = ""

\* C18: a run never inserts a row equal in every column to a stored one,
\* that is, a candidate inserted by an earlier run is not inserted again
\* when it comes back unchanged with the same scrape and analysis results.
C18_RerunInsertsNothing ==
    [][store' # store =>
        \A k \in 1..Len(Appended) : \A j \in 1..Len(store) : Appended[k] # store[j]]_vars

\* C19: the write is issued only after every candidate's callback has
\* returned, and a run that fails before the write issues none and leaves
\* the table unchanged.
C19_InsertLast ==
    [][/\ writes' > writes =>
            /\ pc = "insert"
            /\ \A i \in 1..Len(tasks) : tasks[i].stage = "done"
            /\ \A s \in 1..Len(feedRequests) : feedRequests[s].state = "fulfilled"
       /\ store' # store => pc = "write"
       /\ (pc \in {"parse", "filter", "tasks"} /\ pc' = "done") =>
            response' = 500 /\ writes = 0 /\ writes' = 0 /\ store' = store
      ]_vars

\* One candidate was complete, the other one's analysis threw: the run ended
\* with no write.
C19_Witness ==
    /\ pc = "done" /\ response = 500 /\ writes = 0 /\ store = <<>>
    /\ \E i, j \in 1..Len(tasks) :
        Eligible(tasks[i]) /\ tasks[j].error = "analysis"

\* C20: the assembled record has no date_published, so the column is NULL
\* in every stored row, although the feed entry carries a date.
C20_NoPublicationDate ==
    /\ \A i \in 1..Len(tasks) :
        tasks[i].stage = "done" => "date_published" \notin DOMAIN tasks[i].article
    /\ \A k \in 1..Len(articles) : Get(articles[k], "date_published") = Undefined
    /\ \A k \in 1..Len(store) : store[k].date_published = Null

\* A row was stored for a feed entry that carries a date.
C20_Witness ==
    /\ pc = "done" /\ response = 200 /\ Len(store) >= 1
    /\ store[Len(store)].date_published = Null
    /\ \E i \in 1..Len(tasks) :
        Eligible(tasks[i]) /\ NonEmptyString(tasks[i].item.isoDate)
====
